---- MODULE Spec2Model ----
(***************************************************************************)
(* Model of rkt's read-only API service (rkt/api_readonly_service.go):     *)
(* key/value matching, the pod filter evaluator, the pod view assembler    *)
(* (getBasicPod, fillAppInfo), ListPods / InspectPod, ListImages and the   *)
(* log stream writer.                                                      *)
(*                                                                         *)
(* Strings that the code only compares for equality (ids, names, keys) are *)
(* TLA+ strings.  Strings the code takes prefixes, suffixes or segments of *)
(* (cgroup paths, image names, log chunks) are sequences of one-character  *)
(* strings, so that HasPrefix, TrimSuffix, Split and path.Base are         *)
(* computed, not assumed.                                                  *)
(***************************************************************************)
EXTENDS Integers, Sequences, FiniteSets, TLC

VARIABLES
    actualKVs,      \* containsAllKeyValues: the candidate list
    requiredKVs,    \* containsAllKeyValues: the required list
    kvResult,       \* [done, ret]: the value containsAllKeyValues returned
    pod,            \* the v1alpha.Pod handed to the filter evaluator
    filters,        \* the []*v1alpha.PodFilter of the request
    filterResult,   \* [done, ret]: the value the evaluator returned
    podStore,       \* the pod store: [walkErr, pods], pods a list of handles
    store,          \* the image store: what its lookups answer
    podResp,        \* the response of the last pod operation
    imageResp,      \* the response of the last image operation
    written,        \* the chunks written to the LogsStreamWriter, in order
    sent,           \* the messages the subscriber of the stream received
    writeRet,       \* [n, err]: what the last Write returned
    sendFailed,     \* whether a Send of the stream has failed so far
    waitUUID,       \* waitForMachinedRegistration: its argument
    waitPc,         \* where the call of waitForMachinedRegistration is
    waitI,          \* the loop variable i
    waitLookups,    \* the GetMachine calls made so far: [name, answer]
    waitRet         \* what the call returned ("none" while it runs)

kvVars == <<actualKVs, requiredKVs, kvResult>>
filterVars == <<pod, filters, filterResult>>
podVars == <<podStore, store, podResp>>
imageVars == <<imageResp>>
logVars == <<written, sent, writeRet, sendFailed>>
waitVars == <<waitUUID, waitPc, waitI, waitLookups, waitRet>>
vars == <<kvVars, filterVars, podVars, imageVars, logVars, waitVars>>

(***************************************************************************)
(* Bounds                                                                  *)
(***************************************************************************)
MaxKVs == 2         \* longest key/value list tried
MaxCriteria == 2    \* most criteria a tried pod filter sets at once
MaxFilters == 2     \* longest filter list tried with satisfiesAnyPodFilters

(***************************************************************************)
(* Generic helpers                                                         *)
(***************************************************************************)
Range(s) == {s[i] : i \in 1..Len(s)}

SeqsUpTo(S, n) == UNION {[1..k -> S] : k \in 0..n}

NotRun == [done |-> FALSE, ret |-> FALSE]
Returned(b) == [done |-> TRUE, ret |-> b]

NoResp == [op |-> "none"]

\* strings.HasPrefix(s, prefix) on character sequences.
HasPrefix(s, prefix) ==
    Len(s) >= Len(prefix) /\ SubSeq(s, 1, Len(prefix)) = prefix

\* pkg/set String: NewString, Insert, Has, HasAll.
NewString(items) == Range(items)

Has(s, item) == item \in s

HasAll(s, items) == \A i \in 1..Len(items) : Has(s, items[i])

(***************************************************************************)
(* KeyValue matching utilities                                             *)
(***************************************************************************)
KV(k, v) == [Key |-> k, Value |-> v]

RECURSIVE findInKeyValuesFrom(_, _, _)
findInKeyValuesFrom(kvs, key, i) ==
    IF i > Len(kvs) THEN [Value |-> "", ok |-> FALSE]
    ELSE IF kvs[i].Key = key THEN [Value |-> kvs[i].Value, ok |-> TRUE]
    ELSE findInKeyValuesFrom(kvs, key, i + 1)

findInKeyValues(kvs, key) == findInKeyValuesFrom(kvs, key, 1)

RECURSIVE containsAllKeyValuesFrom(_, _, _)
containsAllKeyValuesFrom(actual, required, i) ==
    IF i > Len(required) THEN TRUE
    ELSE LET found == findInKeyValues(actual, required[i].Key)
         IN  IF ~found.ok \/ found.Value # required[i].Value THEN FALSE
             ELSE containsAllKeyValuesFrom(actual, required, i + 1)

containsAllKeyValues(actual, required) ==
    containsAllKeyValuesFrom(actual, required, 1)

(***************************************************************************)
(* Pod filter evaluator                                                    *)
(***************************************************************************)
RECURSIVE foundStateFrom(_, _, _)
foundStateFrom(states, state, i) ==
    IF i > Len(states) THEN FALSE
    ELSE IF state = states[i] THEN TRUE
    ELSE foundStateFrom(states, state, i + 1)

\* Each criterion is TRUE when the filter passes it (the code does not
\* return false there).
IdsCriterion(p, filter) ==
    IF Len(filter.Ids) > 0
    THEN Has(NewString(filter.Ids), p.Id)
    ELSE TRUE

StatesCriterion(p, filter) ==
    IF Len(filter.States) > 0
    THEN foundStateFrom(filter.States, p.State, 1)
    ELSE TRUE

AppNamesCriterionAny(p, filter) ==
    IF Len(filter.AppNames) > 0
    THEN \E i \in 1..Len(filter.AppNames) :
            Has({p.Apps[j].Name : j \in 1..Len(p.Apps)}, filter.AppNames[i])
    ELSE TRUE

AppNamesCriterion(p, filter) ==
    IF Len(filter.AppNames) > 0
    THEN HasAll({p.Apps[j].Name : j \in 1..Len(p.Apps)}, filter.AppNames)
    ELSE TRUE

ImageIdsCriterion(p, filter) ==
    IF Len(filter.ImageIds) > 0
    THEN HasAll({p.Apps[j].Image.Id : j \in 1..Len(p.Apps)}, filter.ImageIds)
    ELSE TRUE

NetworkNamesCriterion(p, filter) ==
    IF Len(filter.NetworkNames) > 0
    THEN HasAll({p.Networks[j].Name : j \in 1..Len(p.Networks)},
                filter.NetworkNames)
    ELSE TRUE

AnnotationsCriterion(p, filter) ==
    IF Len(filter.Annotations) > 0
    THEN containsAllKeyValues(p.Annotations, filter.Annotations)
    ELSE TRUE

CgroupsCriterion(p, filter) ==
    IF Len(filter.Cgroups) > 0
    THEN Has(NewString(filter.Cgroups), p.Cgroup)
    ELSE TRUE

RECURSIVE subCgroupMatchedFrom(_, _, _)
subCgroupMatchedFrom(candidates, cgroup, i) ==
    IF i > Len(candidates) THEN FALSE
    ELSE IF HasPrefix(candidates[i], cgroup) THEN TRUE
    ELSE subCgroupMatchedFrom(candidates, cgroup, i + 1)

\* The prefix test with its operands exchanged (the candidate as the prefix).
PodSubCgroupsCriterionReversed(p, filter) ==
    IF Len(filter.PodSubCgroups) > 0
    THEN IF p.Cgroup # <<>>
         THEN \E i \in 1..Len(filter.PodSubCgroups) :
                 HasPrefix(p.Cgroup, filter.PodSubCgroups[i])
         ELSE FALSE
    ELSE TRUE

PodSubCgroupsCriterion(p, filter) ==
    IF Len(filter.PodSubCgroups) > 0
    THEN IF p.Cgroup # <<>>
         THEN subCgroupMatchedFrom(filter.PodSubCgroups, p.Cgroup, 1)
         ELSE FALSE
    ELSE TRUE

satisfiesPodFilter(p, filter) ==
    IF ~IdsCriterion(p, filter) THEN FALSE
    ELSE IF ~StatesCriterion(p, filter) THEN FALSE
    ELSE IF ~AppNamesCriterion(p, filter) THEN FALSE
    ELSE IF ~ImageIdsCriterion(p, filter) THEN FALSE
    ELSE IF ~NetworkNamesCriterion(p, filter) THEN FALSE
    ELSE IF ~AnnotationsCriterion(p, filter) THEN FALSE
    ELSE IF ~CgroupsCriterion(p, filter) THEN FALSE
    ELSE IF ~PodSubCgroupsCriterion(p, filter) THEN FALSE
    ELSE TRUE

RECURSIVE anyPodFilterFrom(_, _, _)
anyPodFilterFrom(p, fs, i) ==
    IF i > Len(fs) THEN FALSE
    ELSE IF satisfiesPodFilter(p, fs[i]) THEN TRUE
    ELSE anyPodFilterFrom(p, fs, i + 1)

satisfiesAnyPodFiltersFirstOnly(p, fs) ==
    IF Len(fs) = 0 THEN TRUE ELSE satisfiesPodFilter(p, fs[1])

satisfiesAnyPodFilters(p, fs) ==
    IF Len(fs) = 0 THEN TRUE ELSE anyPodFilterFrom(p, fs, 1)

(***************************************************************************)
(* Input domains of the pure functions                                     *)
(***************************************************************************)
Keys == {"k1", "k2"}
Values == {"v1", "v2"}
KVPairs == {KV(k, v) : k \in Keys, v \in Values}
KVLists == SeqsUpTo(KVPairs, MaxKVs)

\* Cgroup paths, as character sequences: "", "/a", "/a/b", "/x".
NoCgroup == <<>>
CgA == <<"/", "a">>
CgAB == <<"/", "a", "/", "b">>
CgABInit == <<"/", "a", "/", "b", "/", "i">>
CgX == <<"/", "x">>

ImageFormat == [Type |-> "IMAGE_TYPE_APPC", Version |-> "appc-version"]

\* v1alpha.Image as getApplist builds it: format and id only.
BasicImage(id) ==
    [BaseFormat |-> ImageFormat, Id |-> id, Name |-> <<>>, Version |-> ""]

BasicApp(name, imageId, annotations) ==
    [Name |-> name, Image |-> BasicImage(imageId),
     State |-> "APP_STATE_UNDEFINED", ExitCode |-> 0,
     Annotations |-> annotations]

Net(name, ip) == [Name |-> name, Ipv4 |-> ip]

\* The pod snapshots handed to the filter evaluator.
FilterPods ==
    { [Id |-> id, Pid |-> -1, State |-> st, Apps |-> apps, Networks |-> nets,
       Manifest |-> <<>>, Annotations |-> anns, Cgroup |-> cg,
       CreatedAt |-> 0, StartedAt |-> 0, GcMarkedAt |-> 0] :
        id \in {"p1", "p2"},
        st \in {"POD_STATE_RUNNING", "POD_STATE_EXITED"},
        apps \in {<<>>, <<BasicApp("a1", "i1", <<>>)>>,
                  <<BasicApp("a1", "i1", <<>>), BasicApp("a2", "i2", <<>>)>>},
        nets \in {<<>>, <<Net("n1", "ip1")>>,
                  <<Net("n1", "ip1"), Net("n2", "ip2")>>},
        anns \in {<<>>, <<KV("k1", "v1")>>, <<KV("k1", "v1"), KV("k2", "v2")>>},
        cg \in {NoCgroup, CgA, CgAB} }

EmptyPodFilter ==
    [Ids |-> <<>>, States |-> <<>>, AppNames |-> <<>>, ImageIds |-> <<>>,
     NetworkNames |-> <<>>, Annotations |-> <<>>, Cgroups |-> <<>>,
     PodSubCgroups |-> <<>>]

CriteriaSet(f) ==
    {c \in DOMAIN f : f[c] # <<>>}

AllPodFilters ==
    [Ids : {<<>>, <<"p1">>, <<"p2", "p3">>},
     States : {<<>>, <<"POD_STATE_EXITED">>,
               <<"POD_STATE_EXITED", "POD_STATE_RUNNING">>},
     AppNames : {<<>>, <<"a1">>, <<"a1", "a2">>},
     ImageIds : {<<>>, <<"i1">>, <<"i2", "i1">>},
     NetworkNames : {<<>>, <<"n1">>, <<"n1", "n2">>},
     Annotations : {<<>>, <<KV("k1", "v1")>>, <<KV("k2", "v2"), KV("k1", "v1")>>},
     Cgroups : {<<>>, <<CgA>>, <<CgX, CgAB>>},
     PodSubCgroups : {<<>>, <<CgA>>, <<CgX, CgABInit>>}]

PodFilters == {f \in AllPodFilters : Cardinality(CriteriaSet(f)) <= MaxCriteria}

\* The filters of the filter lists tried with satisfiesAnyPodFilters.
AnyPodFilters ==
    {EmptyPodFilter,
     [EmptyPodFilter EXCEPT !.Ids = <<"p1">>],
     [EmptyPodFilter EXCEPT !.States = <<"POD_STATE_EXITED">>],
     [EmptyPodFilter EXCEPT !.AppNames = <<"a1", "a2">>],
     [EmptyPodFilter EXCEPT !.PodSubCgroups = <<CgX, CgABInit>>]}

(***************************************************************************)
(* Specifications of the pure functions                                    *)
(***************************************************************************)
KVIdle == actualKVs = <<>> /\ requiredKVs = <<>> /\ kvResult = NotRun
FilterIdle == pod = <<>> /\ filters = <<>> /\ filterResult = NotRun
PodsIdle == podStore = <<>> /\ store = <<>> /\ podResp = NoResp
ImagesIdle == imageResp = NoResp
WaitIdle ==
    waitUUID = "" /\ waitPc = "idle" /\ waitI = 0 /\ waitLookups = <<>>
    /\ waitRet = "none"
LogsIdle ==
    written = <<>> /\ sent = <<>> /\ writeRet = [n |-> 0, err |-> FALSE]
    /\ sendFailed = FALSE

\* containsAllKeyValues applied to every pair of bounded lists.
KVInit ==
    /\ actualKVs \in KVLists
    /\ requiredKVs \in KVLists
    /\ kvResult = NotRun
    /\ FilterIdle /\ PodsIdle /\ ImagesIdle /\ LogsIdle /\ WaitIdle

ContainsAllKeyValues ==
    /\ ~kvResult.done
    /\ kvResult' = Returned(containsAllKeyValues(actualKVs, requiredKVs))
    /\ UNCHANGED <<actualKVs, requiredKVs, filterVars, podVars, imageVars, logVars, waitVars>>

KVNext == ContainsAllKeyValues

SpecKV == KVInit /\ [][KVNext]_vars

\* satisfiesPodFilter applied to one pod and one filter.
PodFilterInit ==
    /\ pod \in FilterPods
    /\ filters \in {<<f>> : f \in PodFilters}
    /\ filterResult = NotRun
    /\ KVIdle /\ PodsIdle /\ ImagesIdle /\ LogsIdle /\ WaitIdle

SatisfiesPodFilter ==
    /\ ~filterResult.done
    /\ filterResult' = Returned(satisfiesPodFilter(pod, filters[1]))
    /\ UNCHANGED <<pod, filters, kvVars, podVars, imageVars, logVars, waitVars>>

PodFilterNext == SatisfiesPodFilter

SpecPodFilter == PodFilterInit /\ [][PodFilterNext]_vars

\* satisfiesAnyPodFilters applied to one pod and a list of filters.
AnyFilterInit ==
    /\ pod \in FilterPods
    /\ filters \in SeqsUpTo(AnyPodFilters, MaxFilters)
    /\ filterResult = NotRun
    /\ KVIdle /\ PodsIdle /\ ImagesIdle /\ LogsIdle /\ WaitIdle

SatisfiesAnyPodFilters ==
    /\ ~filterResult.done
    /\ filterResult' = Returned(satisfiesAnyPodFilters(pod, filters))
    /\ UNCHANGED <<pod, filters, kvVars, podVars, imageVars, logVars, waitVars>>

AnyFilterNext == SatisfiesAnyPodFilters

SpecAnyFilter == AnyFilterInit /\ [][AnyFilterNext]_vars

(***************************************************************************)
(* Claims                                                                  *)
(***************************************************************************)
IsPrefixOfSeq(prefix, s) ==
    \E k \in 0..Len(s) : s = prefix \o SubSeq(s, k + 1, Len(s))

\* The criteria of a pod filter, stated on sets.
IdsHolds(p, f) == \E i \in 1..Len(f.Ids) : f.Ids[i] = p.Id
StatesHolds(p, f) == p.State \in Range(f.States)
AppNamesHolds(p, f) ==
    Range(f.AppNames) \subseteq {a.Name : a \in Range(p.Apps)}
ImageIdsHolds(p, f) ==
    Range(f.ImageIds) \subseteq {a.Image.Id : a \in Range(p.Apps)}
NetworkNamesHolds(p, f) ==
    Range(f.NetworkNames) \subseteq {n.Name : n \in Range(p.Networks)}
AnnotationsHolds(p, f) ==
    containsAllKeyValues(p.Annotations, f.Annotations)
CgroupsHolds(p, f) == p.Cgroup \in Range(f.Cgroups)
PodSubCgroupsHolds(p, f) ==
    /\ p.Cgroup # <<>>
    /\ \E c \in Range(f.PodSubCgroups) : IsPrefixOfSeq(p.Cgroup, c)

CriterionHolds(c, p, f) ==
    CASE c = "Ids" -> IdsHolds(p, f)
      [] c = "States" -> StatesHolds(p, f)
      [] c = "AppNames" -> AppNamesHolds(p, f)
      [] c = "ImageIds" -> ImageIdsHolds(p, f)
      [] c = "NetworkNames" -> NetworkNamesHolds(p, f)
      [] c = "Annotations" -> AnnotationsHolds(p, f)
      [] c = "Cgroups" -> CgroupsHolds(p, f)
      [] c = "PodSubCgroups" -> PodSubCgroupsHolds(p, f)

\* C1: satisfiesAnyPodFilters(p, F) is true when F is empty, and when F is
\* non-empty it is true iff at least one filter f of F has
\* satisfiesPodFilter(p, f) true.
C1_AnyFilterIsDisjunction ==
    filterResult.done =>
        /\ filters = <<>> => filterResult.ret
        /\ filters # <<>> =>
              (filterResult.ret <=>
                  \E f \in Range(filters) : satisfiesPodFilter(pod, f))

\* C1 witness: a non-empty filter list whose first filter the pod fails and
\* whose later filter it satisfies has been evaluated to true.
C1_Witness ==
    /\ filterResult.done /\ filterResult.ret
    /\ Len(filters) >= 2
    /\ ~satisfiesPodFilter(pod, filters[1])
    /\ CriteriaSet(filters[2]) # {}

\* C2: with a non-empty PodSubCgroups list (and no other criterion), the
\* filter is satisfied iff the pod's Cgroup is non-empty and is a prefix of
\* at least one listed candidate; a pod with an empty Cgroup never is.
C2_SubCgroupIsPodPrefixOfCandidate ==
    (filterResult.done /\ CriteriaSet(filters[1]) = {"PodSubCgroups"}) =>
        /\ filterResult.ret =
              (/\ pod.Cgroup # <<>>
               /\ \E c \in Range(filters[1].PodSubCgroups) :
                     IsPrefixOfSeq(pod.Cgroup, c))
        /\ pod.Cgroup = <<>> => ~filterResult.ret

\* C2 witness: pod cgroup "/a/b" matched the candidate list
\* ["/x", "/a/b/i"], whose second entry is strictly longer than the cgroup.
C2_Witness ==
    /\ filterResult.done /\ filterResult.ret
    /\ CriteriaSet(filters[1]) = {"PodSubCgroups"}
    /\ pod.Cgroup = CgAB
    /\ filters[1].PodSubCgroups = <<CgX, CgABInit>>

\* C5 (as claimed): the result of containsAllKeyValues is true exactly when
\* every required (key, value) pair is present in actual, whatever the order
\* and the duplicates of actual.
C5_ResultIsPairContainment ==
    kvResult.done =>
        kvResult.ret = (Range(requiredKVs) \subseteq Range(actualKVs))

\* C7: satisfiesPodFilter equals the conjunction of the criteria present in
\* the filter, each stated on sets; with exactly one criterion present the
\* result is that criterion's value.
C7_FilterIsConjunction ==
    filterResult.done =>
        /\ filterResult.ret =
              (\A c \in CriteriaSet(filters[1]) :
                  CriterionHolds(c, pod, filters[1]))
        /\ \A c \in CriteriaSet(filters[1]) :
              CriteriaSet(filters[1]) = {c} =>
                  filterResult.ret = CriterionHolds(c, pod, filters[1])

\* C7 witness: a filter with two criteria present, one passed and one
\* failed by the pod, was evaluated to false.
C7_Witness ==
    /\ filterResult.done /\ ~filterResult.ret
    /\ CriteriaSet(filters[1]) = {"States", "NetworkNames"}
    /\ StatesHolds(pod, filters[1])
    /\ ~NetworkNamesHolds(pod, filters[1])

(***************************************************************************)
(* Pod view assembler                                                      *)
(*                                                                         *)
(* A pod handle (a pod of pods.go) is a record of what the pod store and   *)
(* the other                                                               *)
(* collaborators answer for that pod:                                      *)
(*   uuid, file (the bytes of the "pod" file, or NotFound), state (the     *)
(*   value of getState), nets, creationTime / startTime / gcMarkedTime     *)
(*   ([err, zero, nanos]), pid and containerPID1 ([err, pid]), machined    *)
(*   ([connect, answers]: the registration service), cgroupPath            *)
(*   ([err, path]), isRunning, afterRun, appImageManifest and exitStatus   *)
(*   (per app name), statusDir ([err]).                                    *)
(***************************************************************************)
MaxAttempts == 10

NotFound == <<>>
GarbageBytes == <<"{">>
ManifestBytes(manifest) == <<"json", manifest>>

\* "/init.scope"
InitScope == <<"/", "i", "n", "i", "t", ".", "s", "c", "o", "p", "e">>

HasSuffix(s, suffix) ==
    Len(s) >= Len(suffix)
    /\ SubSeq(s, Len(s) - Len(suffix) + 1, Len(s)) = suffix

TrimSuffix(s, suffix) ==
    IF HasSuffix(s, suffix) THEN SubSeq(s, 1, Len(s) - Len(suffix)) ELSE s

\* json.Unmarshal into a schema.PodManifest.
Unmarshal(data) ==
    IF Len(data) = 2 /\ data[1] = "json"
    THEN [err |-> FALSE, manifest |-> data[2]]
    ELSE [err |-> TRUE, manifest |-> <<>>]

getPodManifest(p) ==
    IF p.file = NotFound
    THEN [err |-> TRUE, manifest |-> <<>>, data |-> <<>>]
    ELSE LET parsed == Unmarshal(p.file)
         IN  IF parsed.err
             THEN [err |-> TRUE, manifest |-> <<>>, data |-> <<>>]
             ELSE [err |-> FALSE, manifest |-> parsed.manifest,
                   data |-> p.file]

convertAnnotationsToKeyValue(as) ==
    [i \in 1..Len(as) |-> KV(as[i].Name, as[i].Value)]

getApplist(manifest) ==
    [i \in 1..Len(manifest.Apps) |->
        BasicApp(manifest.Apps[i].Name, manifest.Apps[i].ImageID,
                 convertAnnotationsToKeyValue(manifest.Apps[i].Annotations))]

getNetworks(p) ==
    [i \in 1..Len(p.nets) |-> Net(p.nets[i].NetName, p.nets[i].IP)]

RECURSIVE waitLoop(_, _)
waitLoop(answers, i) ==
    IF i >= MaxAttempts THEN "pod not found"
    ELSE IF answers[i + 1] THEN "nil"
    ELSE waitLoop(answers, i + 1)

\* Returns "nil" or the error.
waitForMachinedRegistration(machined) ==
    IF ~machined.connect THEN "dbus error" ELSE waitLoop(machined.answers, 0)

PodStateOf(state) ==
    CASE state = "Embryo" -> "POD_STATE_EMBRYO"
      [] state = "Preparing" -> "POD_STATE_PREPARING"
      [] state = "AbortedPrepare" -> "POD_STATE_ABORTED_PREPARE"
      [] state = "Prepared" -> "POD_STATE_PREPARED"
      [] state = "Running" -> "POD_STATE_RUNNING"
      [] state = "Deleting" -> "POD_STATE_DELETING"
      [] state = "Exited" -> "POD_STATE_EXITED"
      [] state = "Garbage" -> "POD_STATE_GARBAGE"
      [] OTHER -> "POD_STATE_UNDEFINED"

\* &v1alpha.Pod{Id: p.uuid.String(), Pid: -1}
NewPod(p) ==
    [Id |-> p.uuid, Pid |-> -1, State |-> "POD_STATE_UNDEFINED",
     Apps |-> <<>>, Networks |-> <<>>, Manifest |-> <<>>,
     Annotations |-> <<>>, Cgroup |-> <<>>,
     CreatedAt |-> 0, StartedAt |-> 0, GcMarkedAt |-> 0]

\* Lines 272-279: the manifest is read before the state is looked at.
WithManifest(v1pod, p) ==
    LET m == getPodManifest(p)
    IN  IF m.err THEN v1pod
        ELSE [v1pod EXCEPT !.Manifest = m.data,
                           !.Annotations =
                               convertAnnotationsToKeyValue(m.manifest.Annotations),
                           !.Apps = getApplist(m.manifest)]

\* A timestamp is set when its source answers without error a non-zero time.
TimeField(old, t) == IF t.err THEN old ELSE IF ~t.zero THEN t.nanos ELSE old

WithTimesAndPid(v1pod, p) ==
    [v1pod EXCEPT !.CreatedAt = TimeField(@, p.creationTime),
                  !.StartedAt = TimeField(@, p.startTime),
                  !.GcMarkedAt = TimeField(@, p.gcMarkedTime),
                  !.Pid = IF p.pid.err THEN @ ELSE p.pid.pid]

\* Lines 336-359 with the cgroup lookup skipped when the registration wait
\* fails.
WithCgroupRegisteredOnly(v1pod, p) ==
    IF v1pod.State = "POD_STATE_RUNNING"
    THEN IF waitForMachinedRegistration(p.machined) # "nil" THEN v1pod
         ELSE IF p.containerPID1.err THEN v1pod
         ELSE IF p.cgroupPath.err THEN v1pod
         ELSE [v1pod EXCEPT !.Cgroup = TrimSuffix(p.cgroupPath.path, InitScope)]
    ELSE v1pod

\* Lines 336-359: the result of the registration wait is only logged.
WithCgroup(v1pod, p) ==
    IF v1pod.State = "POD_STATE_RUNNING"
    THEN LET waitErr == waitForMachinedRegistration(p.machined)
         IN  IF p.containerPID1.err THEN v1pod
             ELSE IF p.cgroupPath.err THEN v1pod
             ELSE [v1pod EXCEPT
                      !.Cgroup = TrimSuffix(p.cgroupPath.path, InitScope)]
    ELSE v1pod

\* getBasicPod reading the networks of the pod in every state that goes on
\* past the state switch, not only in Running.
getBasicPodNetworksInEveryState(p) ==
    LET pod1 == WithManifest(NewPod(p), p)
        state == PodStateOf(p.state)
        pod2 == [pod1 EXCEPT !.State = state]
    IN  IF state = "POD_STATE_EMBRYO" THEN pod2
        ELSE IF state = "POD_STATE_UNDEFINED" THEN pod2
        ELSE WithCgroup(WithTimesAndPid(
                 [pod2 EXCEPT !.Networks = getNetworks(p)], p), p)

getBasicPod(p) ==
    LET pod1 == WithManifest(NewPod(p), p)
        state == PodStateOf(p.state)
        pod2 == [pod1 EXCEPT !.State = state]
    IN  IF state = "POD_STATE_EMBRYO" THEN pod2
        ELSE IF state = "POD_STATE_UNDEFINED" THEN pod2
        ELSE LET pod3 == IF state = "POD_STATE_RUNNING"
                         THEN [pod2 EXCEPT !.Networks = getNetworks(p)]
                         ELSE pod2
             IN  WithCgroup(WithTimesAndPid(pod3, p), p)

\* types.Labels.Get / the first entry of that name.
RECURSIVE labelsGetFrom(_, _, _)
labelsGetFrom(labels, name, i) ==
    IF i > Len(labels) THEN [Value |-> "", ok |-> FALSE]
    ELSE IF labels[i].Name = name THEN [Value |-> labels[i].Value, ok |-> TRUE]
    ELSE labelsGetFrom(labels, name, i + 1)

labelsGet(labels, name) == labelsGetFrom(labels, name, 1)

\* The version of an image manifest: its "version" label, else "latest".
VersionOf(labels) ==
    LET v == labelsGet(labels, "version")
    IN  IF ~v.ok THEN "latest" ELSE v.Value

\* One iteration of fillAppInfo's loop (lines 416-473).
fillApp(s, p, app) ==
    LET readStatus == p.isRunning \/ p.afterRun
        appState == IF p.isRunning THEN "APP_STATE_RUNNING"
                    ELSE IF p.afterRun THEN "APP_STATE_EXITED"
                    ELSE "APP_STATE_UNDEFINED"
        \* fullImageID, err := store.ResolveKey(app.Image.Id): err is logged,
        \* fullImageID is used whatever err is.
        resolved == s.resolveKey[app.Image.Id]
        image0 == [BaseFormat |-> ImageFormat, Id |-> resolved.key,
                   Name |-> <<>>, Version |-> ""]
        im == p.appImageManifest[app.Name]
        image1 == IF im.err THEN image0
                  ELSE [image0 EXCEPT !.Name = im.Name,
                                      !.Version = VersionOf(im.Labels)]
        status == p.exitStatus[app.Name]
        \* a missing status file is not an error: the value read is stored.
        exitCode == IF readStatus /\ ~p.statusDir.err /\ status.err # "other"
                    THEN status.value
                    ELSE app.ExitCode
    IN  [app EXCEPT !.State = appState, !.Image = image1,
                    !.ExitCode = exitCode]

fillAppInfo(s, p, v1pod) ==
    IF v1pod.State \in {"POD_STATE_UNDEFINED", "POD_STATE_EMBRYO"} THEN v1pod
    ELSE [v1pod EXCEPT !.Apps = [i \in 1..Len(@) |-> fillApp(s, p, @[i])]]

(***************************************************************************)
(* Query facade: pods                                                      *)
(***************************************************************************)
\* The callback ListPods hands to walkPods, without the clearing of the
\* manifest.
listPodsVisitKeepManifest(pods, s, p, request) ==
    LET v1pod == getBasicPod(p)
    IN  IF ~satisfiesAnyPodFilters(v1pod, request.Filters) THEN pods
        ELSE IF request.Detail THEN Append(pods, fillAppInfo(s, p, v1pod))
        ELSE Append(pods, v1pod)

\* The callback ListPods hands to walkPods (lines 385-399).
listPodsVisit(pods, s, p, request) ==
    LET v1pod == getBasicPod(p)
    IN  IF ~satisfiesAnyPodFilters(v1pod, request.Filters) THEN pods
        ELSE IF request.Detail THEN Append(pods, fillAppInfo(s, p, v1pod))
        ELSE Append(pods, [v1pod EXCEPT !.Manifest = <<>>])

\* walkPods calls the callback on every pod of the store, in order.
RECURSIVE walkPodsFrom(_, _, _, _, _)
walkPodsFrom(pods, s, handles, request, i) ==
    IF i > Len(handles) THEN pods
    ELSE walkPodsFrom(listPodsVisit(pods, s, handles[i], request),
                      s, handles, request, i + 1)

listPods(ps, s, request) ==
    IF ps.walkErr
    THEN [op |-> "ListPods", req |-> request, err |-> TRUE, pods |-> <<>>]
    ELSE [op |-> "ListPods", req |-> request, err |-> FALSE,
          pods |-> walkPodsFrom(<<>>, s, ps.pods, request, 1)]

\* The identifiers types.NewUUID accepts.
UUIDs == {"p1", "p2", "p3", "p4"}

\* getPod: the handle of that uuid, when the store has one.
getPod(ps, uuid) ==
    LET found == {i \in 1..Len(ps.pods) : ps.pods[i].uuid = uuid}
    IN  IF found = {} THEN [err |-> TRUE, p |-> <<>>]
        ELSE [err |-> FALSE, p |-> ps.pods[CHOOSE i \in found : TRUE]]

inspectPod(ps, s, request) ==
    IF request.Id \notin UUIDs
    THEN [op |-> "InspectPod", req |-> request, err |-> TRUE, pod |-> <<>>]
    ELSE LET got == getPod(ps, request.Id)
         IN  IF got.err
             THEN [op |-> "InspectPod", req |-> request, err |-> TRUE,
                   pod |-> <<>>]
             ELSE [op |-> "InspectPod", req |-> request, err |-> FALSE,
                   pod |-> fillAppInfo(s, got.p, getBasicPod(got.p))]

(***************************************************************************)
(* Pod handles and stores tried                                            *)
(***************************************************************************)
MaxPods == 2        \* most pods in the pod store of the list operations

ImageIDs == {"i1", "i2"}

\* A pod manifest with two apps and one annotation.
Manifest1 ==
    [Apps |-> <<[Name |-> "a1", ImageID |-> "i1", Annotations |-> <<>>],
                [Name |-> "a2", ImageID |-> "i2",
                 Annotations |-> <<[Name |-> "k2", Value |-> "v2"]>>]>>,
     Annotations |-> <<[Name |-> "k1", Value |-> "v1"]>>]

TimeErr == [err |-> TRUE, zero |-> TRUE, nanos |-> 0]
TimeZero == [err |-> FALSE, zero |-> TRUE, nanos |-> 0]
TimeAt(n) == [err |-> FALSE, zero |-> FALSE, nanos |-> n]

PidErr == [err |-> TRUE, pid |-> 0]
PidOf(n) == [err |-> FALSE, pid |-> n]

CgroupErr == [err |-> TRUE, path |-> <<>>]
CgroupAt(path) == [err |-> FALSE, path |-> path]

\* The registration service: unreachable, or answering the i-th lookup
\* positively from lookup k on (k = MaxAttempts + 1: never).
NoMachined == [connect |-> FALSE, answers |-> [i \in 1..MaxAttempts |-> FALSE]]
MachinedFrom(k) == [connect |-> TRUE, answers |-> [i \in 1..MaxAttempts |-> i >= k]]

ImageManifestErr == [err |-> TRUE, Name |-> <<>>, Labels |-> <<>>]
ImageManifestOf(name, labels) == [err |-> FALSE, Name |-> name, Labels |-> labels]

\* Per app: the image manifest and the exit status file of the pod.
AppImageManifests ==
    {[a1 |-> ImageManifestOf(<<"a", "/", "b">>, <<[Name |-> "version", Value |-> "1.0"]>>),
      a2 |-> ImageManifestOf(<<"b">>, <<[Name |-> "os", Value |-> "linux"]>>)],
     [a1 |-> ImageManifestErr,
      a2 |-> ImageManifestOf(<<"b">>, <<[Name |-> "os", Value |-> "linux"]>>)]}

ExitStatuses ==
    [a1 |-> [err |-> "nil", value |-> 3],
     a2 |-> [err |-> "notexist", value |-> 0]]

DefaultHandle ==
    [uuid |-> "p1", file |-> NotFound, state |-> "Embryo", nets |-> <<>>,
     creationTime |-> TimeAt(5), startTime |-> TimeAt(6),
     gcMarkedTime |-> TimeZero, pid |-> PidOf(42),
     machined |-> MachinedFrom(1), containerPID1 |-> PidOf(43),
     cgroupPath |-> CgroupAt(CgA \o InitScope),
     isRunning |-> FALSE, afterRun |-> FALSE,
     appImageManifest |-> CHOOSE m \in AppImageManifests : ~m.a1.err,
     statusDir |-> [err |-> FALSE], exitStatus |-> ExitStatuses]

InternalStates ==
    {"Embryo", "Preparing", "AbortedPrepare", "Prepared", "Running",
     "Deleting", "Exited", "Garbage", "Invalid"}

PodFiles == {NotFound, GarbageBytes, ManifestBytes(Manifest1)}

\* The handles getBasicPod is tried on: every state, every outcome of every
\* source it reads.
BasicPodHandles ==
    { [DefaultHandle EXCEPT
          !.file = f, !.state = st, !.nets = n,
          !.creationTime = ct, !.startTime = stt, !.gcMarkedTime = gt,
          !.pid = pd, !.machined = m, !.containerPID1 = p1,
          !.cgroupPath = cg, !.isRunning = (st = "Running"),
          !.afterRun = (st \in {"Exited", "Garbage"})] :
        f \in PodFiles, st \in InternalStates,
        n \in {<<>>, <<[NetName |-> "n1", IP |-> "ip1"]>>},
        ct \in {TimeErr, TimeZero, TimeAt(5)},
        stt \in {TimeErr, TimeZero, TimeAt(6)},
        gt \in {TimeErr, TimeZero, TimeAt(7)},
        pd \in {PidErr, PidOf(42)},
        m \in {NoMachined, MachinedFrom(1), MachinedFrom(MaxAttempts + 1)},
        p1 \in {PidErr, PidOf(43)},
        cg \in {CgroupErr, CgroupAt(CgA), CgroupAt(CgA \o InitScope),
                CgroupAt(InitScope)} }

\* The handles of the stores that ListPods and InspectPod are tried on.
ListHandles ==
    { [DefaultHandle EXCEPT
          !.file = f, !.state = st,
          !.nets = <<[NetName |-> "n1", IP |-> "ip1"]>>,
          !.isRunning = (st = "Running"), !.afterRun = (st = "Exited"),
          !.appImageManifest = aim] :
        f \in PodFiles, st \in {"Embryo", "Running", "Exited"},
        aim \in AppImageManifests }

\* The i-th pod of a store has the i-th uuid.
UUIDAt(i) == CHOOSE u \in UUIDs : u = CASE i = 1 -> "p1" [] i = 2 -> "p2"
                                           [] i = 3 -> "p3" [] OTHER -> "p4"

WithUUIDs(hs) == [i \in 1..Len(hs) |-> [hs[i] EXCEPT !.uuid = UUIDAt(i)]]

PodStores ==
    {[walkErr |-> FALSE, pods |-> WithUUIDs(hs)] :
        hs \in SeqsUpTo(ListHandles, MaxPods)}
    \cup {[walkErr |-> TRUE, pods |-> WithUUIDs(hs)] :
            hs \in SeqsUpTo(ListHandles, 1)}

\* ResolveKey answers the canonical key, or an error and no key.
ResolveErr == [err |-> TRUE, key |-> ""]
ResolveTo(key) == [err |-> FALSE, key |-> key]

ResolveKeys ==
    {[i1 |-> ResolveTo("sha512-i1"), i2 |-> ResolveTo("sha512-i2")],
     [i1 |-> ResolveErr, i2 |-> ResolveTo("sha512-i2")],
     [i1 |-> ResolveErr, i2 |-> ResolveErr]}

NoImages == [err |-> FALSE, infos |-> <<>>]

PodStoreImageStores ==
    {[resolveKey |-> rk, allACIInfos |-> NoImages, manifestJSON |-> <<>>] :
        rk \in ResolveKeys}

ListPodsRequests ==
    [Filters : {<<>>,
                <<[EmptyPodFilter EXCEPT !.States = <<"POD_STATE_RUNNING">>]>>,
                <<[EmptyPodFilter EXCEPT !.Ids = <<"p2">>],
                  [EmptyPodFilter EXCEPT !.AppNames = <<"a1">>]>>},
     Detail : BOOLEAN]

InspectPodRequests == [Id : {"p1", "p2", "p4", "not-a-uuid"}]

(***************************************************************************)
(* Specifications of the pod operations                                    *)
(***************************************************************************)
\* getBasicPod applied to one handle.
BasicPodInit ==
    /\ podStore \in {[walkErr |-> FALSE, pods |-> <<p>>] : p \in BasicPodHandles}
    /\ store = [resolveKey |-> CHOOSE rk \in ResolveKeys : ~rk.i1.err,
                allACIInfos |-> NoImages, manifestJSON |-> <<>>]
    /\ podResp = NoResp
    /\ KVIdle /\ FilterIdle /\ ImagesIdle /\ LogsIdle /\ WaitIdle

GetBasicPod ==
    /\ podResp.op = "none"
    /\ podResp' = [op |-> "getBasicPod", pod |-> getBasicPod(podStore.pods[1])]
    /\ UNCHANGED <<podStore, store, kvVars, filterVars, imageVars, logVars, waitVars>>

BasicPodNext == GetBasicPod

SpecBasicPod == BasicPodInit /\ [][BasicPodNext]_vars

\* ListPods and InspectPod on a pod store.
PodsInit ==
    /\ podStore \in PodStores
    /\ store \in PodStoreImageStores
    /\ podResp = NoResp
    /\ KVIdle /\ FilterIdle /\ ImagesIdle /\ LogsIdle /\ WaitIdle

ListPods ==
    /\ podResp.op = "none"
    /\ \E request \in ListPodsRequests :
          podResp' = listPods(podStore, store, request)
    /\ UNCHANGED <<podStore, store, kvVars, filterVars, imageVars, logVars, waitVars>>

InspectPod ==
    /\ podResp.op = "none"
    /\ \E request \in InspectPodRequests :
          podResp' = inspectPod(podStore, store, request)
    /\ UNCHANGED <<podStore, store, kvVars, filterVars, imageVars, logVars, waitVars>>

PodsNext == ListPods \/ InspectPod

SpecPods == PodsInit /\ [][PodsNext]_vars

(***************************************************************************)
(* Claims on the pod operations                                            *)
(***************************************************************************)
\* The handle of the store that has this id.
HandleOf(id) == CHOOSE h \in Range(podStore.pods) : h.uuid = id

ManifestReadable(h) == h.file \notin {NotFound, GarbageBytes}

\* C3: in the result of ListPods, with Detail false every pod's Manifest is
\* empty, also when its manifest was read; with Detail true the Manifest is
\* the raw bytes of the pod's manifest file whenever that file was read and
\* parsed.
C3_ManifestFollowsDetail ==
    (podResp.op = "ListPods" /\ ~podResp.err) =>
        \A i \in 1..Len(podResp.pods) :
            LET v1pod == podResp.pods[i]
                h == HandleOf(v1pod.Id)
            IN  /\ ~podResp.req.Detail => v1pod.Manifest = <<>>
                /\ (podResp.req.Detail /\ ManifestReadable(h)) =>
                      (v1pod.Manifest = h.file /\ v1pod.Manifest # <<>>)

\* C3 witness: a listing without detail returned a pod whose manifest was
\* readable (its apps are there, its Manifest is not).
C3_Witness ==
    /\ podResp.op = "ListPods" /\ ~podResp.err /\ ~podResp.req.Detail
    /\ \E i \in 1..Len(podResp.pods) :
          /\ ManifestReadable(HandleOf(podResp.pods[i].Id))
          /\ podResp.pods[i].Apps # <<>>
          /\ podResp.pods[i].Manifest = <<>>

\* C4 (as claimed): the snapshot of an Embryo pod has only Id, Pid = -1 and
\* State = EMBRYO set, whatever its manifest file holds.
C4_EmbryoHasOnlyIdPidState ==
    (podResp.op = "getBasicPod" /\ podStore.pods[1].state = "Embryo") =>
        /\ podResp.pod.Id = podStore.pods[1].uuid
        /\ podResp.pod.Pid = -1
        /\ podResp.pod.State = "POD_STATE_EMBRYO"
        /\ podResp.pod.Apps = <<>>
        /\ podResp.pod.Annotations = <<>>
        /\ podResp.pod.CreatedAt = 0
        /\ podResp.pod.StartedAt = 0
        /\ podResp.pod.GcMarkedAt = 0

RegistrationFailed(h) ==
    \/ ~h.machined.connect
    \/ \A i \in 1..MaxAttempts : ~h.machined.answers[i]

\* The fields of a Running pod's snapshot that the cgroup stage does not set.
OtherFieldsOfRunning(v1pod, h) ==
    /\ v1pod.Id = h.uuid
    /\ v1pod.State = "POD_STATE_RUNNING"
    /\ v1pod.Pid = (IF h.pid.err THEN -1 ELSE h.pid.pid)
    /\ Len(v1pod.Networks) = Len(h.nets)
    /\ (ManifestReadable(h) <=> v1pod.Manifest # <<>>)

\* C9 (as claimed): for a Running pod, a failed registration wait, a failed
\* resolution of the primary process or a failed cgroup lookup each leave
\* Cgroup empty, and the snapshot has its other fields.
C9_AnyFailureLeavesCgroupEmpty ==
    LET h == podStore.pods[1]
    IN  (podResp.op = "getBasicPod" /\ h.state = "Running") =>
            /\ (RegistrationFailed(h) \/ h.containerPID1.err \/ h.cgroupPath.err)
                  => podResp.pod.Cgroup = <<>>
            /\ OtherFieldsOfRunning(podResp.pod, h)

\* C9 (amended): for a Running pod, a failed resolution of the primary
\* process or a failed cgroup lookup leaves Cgroup empty; a failed
\* registration wait is only logged, and Cgroup is then still the looked-up
\* path without its "/init.scope" suffix when both lookups succeed; in every
\* case the snapshot has its other fields.
C9_LookupFailureLeavesCgroupEmpty ==
    LET h == podStore.pods[1]
    IN  (podResp.op = "getBasicPod" /\ h.state = "Running") =>
            /\ (h.containerPID1.err \/ h.cgroupPath.err)
                  => podResp.pod.Cgroup = <<>>
            /\ (~h.containerPID1.err /\ ~h.cgroupPath.err)
                  => \E k \in 0..Len(h.cgroupPath.path) :
                        /\ podResp.pod.Cgroup = SubSeq(h.cgroupPath.path, 1, k)
                        /\ SubSeq(h.cgroupPath.path, k + 1,
                                  Len(h.cgroupPath.path)) \in {<<>>, InitScope}
                        /\ (k = Len(h.cgroupPath.path)
                               => ~HasSuffix(h.cgroupPath.path, InitScope))
            /\ OtherFieldsOfRunning(podResp.pod, h)

\* C9 witness: a Running pod whose cgroup lookup failed (its registration
\* wait and the resolution of its primary process succeeded) was returned
\* with an empty Cgroup.
C9_Witness ==
    LET h == podStore.pods[1]
    IN  /\ podResp.op = "getBasicPod" /\ h.state = "Running"
        /\ h.cgroupPath.err /\ ~h.containerPID1.err /\ ~RegistrationFailed(h)
        /\ podResp.pod.Cgroup = <<>>
        /\ podResp.pod.State = "POD_STATE_RUNNING"

\* The part of C10 that is about continuing: after fillAppInfo has run, every
\* app, also one whose image id failed to resolve and the apps after it, has
\* the name of its image manifest when the pod store gave one.
C10_EnrichmentContinues ==
    (/\ podResp.op = "InspectPod" /\ ~podResp.err
     /\ podResp.pod.State \notin {"POD_STATE_UNDEFINED", "POD_STATE_EMBRYO"}) =>
        LET h == HandleOf(podResp.pod.Id)
        IN  \A i \in 1..Len(podResp.pod.Apps) :
                LET im == h.appImageManifest[podResp.pod.Apps[i].Name]
                IN  ~im.err => podResp.pod.Apps[i].Image.Name = im.Name

\* C10 (as claimed): after fillAppInfo has run on a pod, an app whose image
\* id the image store failed to resolve keeps the id it had from the pod
\* manifest, and the enrichment of it and of the other apps continues.
C10_UnresolvedIdIsKept ==
    /\ C10_EnrichmentContinues
    /\ (/\ podResp.op = "InspectPod" /\ ~podResp.err
        /\ podResp.pod.State
               \notin {"POD_STATE_UNDEFINED", "POD_STATE_EMBRYO"}) =>
           LET h == HandleOf(podResp.pod.Id)
               basic == getApplist(Unmarshal(h.file).manifest)
           IN  \A i \in 1..Len(podResp.pod.Apps) :
                   store.resolveKey[basic[i].Image.Id].err =>
                       podResp.pod.Apps[i].Image.Id = basic[i].Image.Id

(***************************************************************************)
(* Image view assembler, image filter evaluator, ListImages                *)
(*                                                                         *)
(* The image store answers: allACIInfos ([err, infos], infos a list of     *)
(* [BlobKey, ImportTime, Size, TreeStoreSize]) and manifestJSON (per blob  *)
(* key: [err, data]).  Image names are character sequences.                *)
(***************************************************************************)
ImageManifestBytes(im) == <<"json-image", im>>

\* json.Unmarshal into a schema.ImageManifest.
UnmarshalImage(data) ==
    IF Len(data) = 2 /\ data[1] = "json-image"
    THEN [err |-> FALSE, im |-> data[2]]
    ELSE [err |-> TRUE, im |-> <<>>]

convertLabelsToKeyValue(ls) ==
    [i \in 1..Len(ls) |-> KV(ls[i].Name, ls[i].Value)]

aciInfoToV1AlphaAPIImage(s, aciInfo) ==
    LET loaded == s.manifestJSON[aciInfo.BlobKey]
    IN  IF loaded.err THEN [err |-> TRUE, image |-> <<>>]
        ELSE LET parsed == UnmarshalImage(loaded.data)
             IN  IF parsed.err THEN [err |-> TRUE, image |-> <<>>]
                 ELSE [err |-> FALSE,
                       image |->
                          [BaseFormat |-> ImageFormat,
                           Id |-> aciInfo.BlobKey,
                           Name |-> parsed.im.Name,
                           Version |-> VersionOf(parsed.im.Labels),
                           ImportTimestamp |-> aciInfo.ImportTime,
                           Manifest |-> loaded.data,
                           Size |-> aciInfo.Size + aciInfo.TreeStoreSize,
                           Annotations |->
                               convertAnnotationsToKeyValue(parsed.im.Annotations),
                           Labels |-> convertLabelsToKeyValue(parsed.im.Labels)]]

\* path.Base: trailing slashes dropped, then the part after the last slash;
\* "." for the empty path, "/" for a path of slashes only.
RECURSIVE stripTrailingSlashes(_)
stripTrailingSlashes(path) ==
    IF Len(path) > 0 /\ path[Len(path)] = "/"
    THEN stripTrailingSlashes(SubSeq(path, 1, Len(path) - 1))
    ELSE path

pathBase(path) ==
    IF path = <<>> THEN <<".">>
    ELSE LET stripped == stripTrailingSlashes(path)
             slashes == {i \in 1..Len(stripped) : stripped[i] = "/"}
             last == IF slashes = {} THEN stripped
                     ELSE LET i == CHOOSE j \in slashes :
                                      \A k \in slashes : k <= j
                          IN  SubSeq(stripped, i + 1, Len(stripped))
         IN  IF last = <<>> THEN <<"/">> ELSE last

\* strings.Contains
Contains(s, substr) ==
    \E i \in 1..(Len(s) + 1) :
        /\ i + Len(substr) - 1 <= Len(s)
        /\ SubSeq(s, i, i + Len(substr) - 1) = substr

isBaseNameOf(basename, s) == basename = pathBase(s)
isPrefixOf(prefix, s) == HasPrefix(s, prefix)
isPartOf(keyword, s) == Contains(s, keyword)

\* s.ConditionalHas(cond, item) of pkg/set is written out: some member key of
\* the set has cond(key, item).
satisfiesImageFilter(image, filter) ==
    IF Len(filter.Ids) > 0 /\ ~Has(NewString(filter.Ids), image.Id)
    THEN FALSE
    ELSE IF Len(filter.FullNames) > 0
            /\ ~Has(NewString(filter.FullNames), image.Name)
    THEN FALSE
    ELSE IF Len(filter.Prefixes) > 0
            /\ ~\E key \in NewString(filter.Prefixes) :
                    isPrefixOf(key, image.Name)
    THEN FALSE
    ELSE IF Len(filter.BaseNames) > 0
            /\ ~\E key \in NewString(filter.BaseNames) :
                    isBaseNameOf(key, image.Name)
    THEN FALSE
    ELSE IF Len(filter.Keywords) > 0
            /\ ~\E key \in NewString(filter.Keywords) :
                    isPartOf(key, image.Name)
    THEN FALSE
    ELSE IF filter.ImportedAfter > 0
            /\ image.ImportTimestamp <= filter.ImportedAfter
    THEN FALSE
    ELSE IF filter.ImportedBefore > 0
            /\ image.ImportTimestamp >= filter.ImportedBefore
    THEN FALSE
    ELSE IF Len(filter.Labels) > 0
            /\ ~containsAllKeyValues(image.Labels, filter.Labels)
    THEN FALSE
    ELSE IF Len(filter.Annotations) > 0
            /\ ~containsAllKeyValues(image.Annotations, filter.Annotations)
    THEN FALSE
    ELSE TRUE

RECURSIVE anyImageFilterFrom(_, _, _)
anyImageFilterFrom(image, fs, i) ==
    IF i > Len(fs) THEN FALSE
    ELSE IF satisfiesImageFilter(image, fs[i]) THEN TRUE
    ELSE anyImageFilterFrom(image, fs, i + 1)

satisfiesAnyImageFilters(image, fs) ==
    IF Len(fs) = 0 THEN TRUE ELSE anyImageFilterFrom(image, fs, 1)

\* The loop of ListImages (lines 654-667).
RECURSIVE listImagesFrom(_, _, _, _, _)
listImagesFrom(images, s, aciInfos, request, i) ==
    IF i > Len(aciInfos) THEN images
    ELSE LET converted == aciInfoToV1AlphaAPIImage(s, aciInfos[i])
             next ==
                IF converted.err THEN images
                ELSE IF ~satisfiesAnyImageFilters(converted.image,
                                                  request.Filters)
                THEN images
                ELSE IF ~request.Detail
                THEN Append(images, [converted.image EXCEPT !.Manifest = <<>>])
                ELSE Append(images, converted.image)
         IN  listImagesFrom(next, s, aciInfos, request, i + 1)

\* ListImages failing the whole call when one record does not convert.
listImagesAbortOnConversionError(s, request) ==
    IF s.allACIInfos.err
       \/ \E i \in 1..Len(s.allACIInfos.infos) :
             aciInfoToV1AlphaAPIImage(s, s.allACIInfos.infos[i]).err
    THEN [op |-> "ListImages", req |-> request, err |-> TRUE, images |-> <<>>]
    ELSE [op |-> "ListImages", req |-> request, err |-> FALSE,
          images |-> listImagesFrom(<<>>, s, s.allACIInfos.infos, request, 1)]

listImages(s, request) ==
    IF s.allACIInfos.err
    THEN [op |-> "ListImages", req |-> request, err |-> TRUE, images |-> <<>>]
    ELSE [op |-> "ListImages", req |-> request, err |-> FALSE,
          images |-> listImagesFrom(<<>>, s, s.allACIInfos.infos, request, 1)]

(***************************************************************************)
(* Image stores tried                                                      *)
(***************************************************************************)
MaxImages == 2      \* most records in the image store

BlobKeyAt(i) == CASE i = 1 -> "sha512-k1" [] i = 2 -> "sha512-k2"
                  [] i = 3 -> "sha512-k3" [] OTHER -> "sha512-k4"

BlobKeys == {BlobKeyAt(i) : i \in 1..(MaxImages + 1)}

ACIInfoAt(i) ==
    [BlobKey |-> BlobKeyAt(i), ImportTime |-> 10 * i, Size |-> 100,
     TreeStoreSize |-> i]

\* "a/b" with a version label, "b" without one.
ImageManifestAB ==
    [Name |-> <<"a", "/", "b">>,
     Labels |-> <<[Name |-> "version", Value |-> "1.0"]>>,
     Annotations |-> <<[Name |-> "k1", Value |-> "v1"]>>]

ImageManifestB ==
    [Name |-> <<"b">>, Labels |-> <<[Name |-> "os", Value |-> "linux"]>>,
     Annotations |-> <<>>]

ManifestJSONs ==
    {[err |-> TRUE, data |-> <<>>],
     [err |-> FALSE, data |-> GarbageBytes],
     [err |-> FALSE, data |-> ImageManifestBytes(ImageManifestAB)],
     [err |-> FALSE, data |-> ImageManifestBytes(ImageManifestB)]}

NoManifestJSON == [k \in BlobKeys |-> [err |-> TRUE, data |-> <<>>]]

ImageStores ==
    {[resolveKey |-> CHOOSE rk \in ResolveKeys : ~rk.i1.err,
      allACIInfos |-> [err |-> FALSE,
                       infos |-> [i \in 1..n |-> ACIInfoAt(i)]],
      manifestJSON |-> [k \in BlobKeys |->
                          IF \E i \in 1..n : k = BlobKeyAt(i)
                          THEN mj[CHOOSE i \in 1..n : k = BlobKeyAt(i)]
                          ELSE [err |-> TRUE, data |-> <<>>]]] :
        n \in 0..MaxImages,
        mj \in [1..MaxImages -> ManifestJSONs]}
    \cup
    {[resolveKey |-> CHOOSE rk \in ResolveKeys : ~rk.i1.err,
      allACIInfos |-> [err |-> TRUE, infos |-> <<>>],
      manifestJSON |-> NoManifestJSON]}

EmptyImageFilter ==
    [Ids |-> <<>>, FullNames |-> <<>>, Prefixes |-> <<>>, BaseNames |-> <<>>,
     Keywords |-> <<>>, ImportedAfter |-> 0, ImportedBefore |-> 0,
     Labels |-> <<>>, Annotations |-> <<>>]

ListImagesRequests ==
    [Filters :
        {<<>>,
         <<[EmptyImageFilter EXCEPT !.Prefixes = <<<<"a", "/">>>>]>>,
         <<[EmptyImageFilter EXCEPT !.BaseNames = <<<<"b">>>>,
                                    !.ImportedAfter = 10]>>,
         <<[EmptyImageFilter EXCEPT !.Ids = <<"sha512-k2">>],
           [EmptyImageFilter EXCEPT !.Labels = <<KV("version", "1.0")>>]>>,
         <<[EmptyImageFilter EXCEPT !.Keywords = <<<<"/">>>>,
                                    !.ImportedBefore = 20,
                                    !.FullNames = <<<<"a", "/", "b">>>>,
                                    !.Annotations = <<KV("k1", "v1")>>]>>},
     Detail : BOOLEAN]

\* ListImages on an image store.
ImagesInit ==
    /\ store \in ImageStores
    /\ podStore = <<>> /\ podResp = NoResp
    /\ imageResp = NoResp
    /\ KVIdle /\ FilterIdle /\ LogsIdle /\ WaitIdle

ListImages ==
    /\ imageResp.op = "none"
    /\ \E request \in ListImagesRequests :
          imageResp' = listImages(store, request)
    /\ UNCHANGED <<kvVars, filterVars, podVars, logVars, waitVars>>

ImagesNext == ListImages

SpecImages == ImagesInit /\ [][ImagesNext]_vars

\* A record converts when its manifest loads and parses.
Converts(aciInfo) ==
    /\ ~store.manifestJSON[aciInfo.BlobKey].err
    /\ store.manifestJSON[aciInfo.BlobKey].data # GarbageBytes

\* C8: when the records cannot be enumerated ListImages fails with no
\* result; otherwise it succeeds whatever records fail to convert, and
\* returns, in enumeration order, exactly the records that convert and
\* whose image satisfies the filter set.
C8_ConversionErrorSkipsOneRecord ==
    imageResp.op = "ListImages" =>
        IF store.allACIInfos.err
        THEN imageResp.err /\ imageResp.images = <<>>
        ELSE LET Kept(aciInfo) ==
                     /\ Converts(aciInfo)
                     /\ satisfiesAnyImageFilters(
                            aciInfoToV1AlphaAPIImage(store, aciInfo).image,
                            imageResp.req.Filters)
                 kept == SelectSeq(store.allACIInfos.infos, Kept)
             IN  /\ ~imageResp.err
                 /\ Len(imageResp.images) = Len(kept)
                 /\ \A i \in 1..Len(kept) :
                       /\ imageResp.images[i].Id = kept[i].BlobKey
                       /\ imageResp.images[i].ImportTimestamp =
                              kept[i].ImportTime

\* C8 witness: a store whose first record fails to convert and whose second
\* converts was listed: the call succeeded and returned the second record.
C8_Witness ==
    /\ imageResp.op = "ListImages" /\ ~imageResp.err
    /\ Len(store.allACIInfos.infos) = 2
    /\ ~Converts(store.allACIInfos.infos[1])
    /\ Converts(store.allACIInfos.infos[2])
    /\ Len(imageResp.images) = 1
    /\ imageResp.images[1].Id = store.allACIInfos.infos[2].BlobKey

(***************************************************************************)
(* Log stream adapter                                                      *)
(*                                                                         *)
(* A chunk is a sequence of characters; NL is the newline.                 *)
(***************************************************************************)
NL == "\n"

\* strings.Split(s, "\n"): the segments between the newlines, the empty ones
\* included (one segment more than there are newlines).
RECURSIVE splitFrom(_, _, _, _)
splitFrom(s, i, current, segments) ==
    IF i > Len(s) THEN Append(segments, current)
    ELSE IF s[i] = NL THEN splitFrom(s, i + 1, <<>>, Append(segments, current))
    ELSE splitFrom(s, i + 1, Append(current, s[i]), segments)

Split(s) == splitFrom(s, 1, <<>>, <<>>)

RECURSIVE nonEmptyFrom(_, _, _)
nonEmptyFrom(segments, i, lines) ==
    IF i > Len(segments) THEN lines
    ELSE IF Len(segments[i]) > 0
    THEN nonEmptyFrom(segments, i + 1, Append(lines, segments[i]))
    ELSE nonEmptyFrom(segments, i + 1, lines)

\* LogsStreamWriter.Write not sending a chunk that has no non-empty line.
streamWriteSkippingEmptyBatch(received, b, sendOk) ==
    LET lines == nonEmptyFrom(Split(b), 1, <<>>)
    IN  IF lines = <<>>
        THEN [sent |-> received, ret |-> [n |-> Len(b), err |-> FALSE]]
        ELSE IF ~sendOk
        THEN [sent |-> received, ret |-> [n |-> 0, err |-> TRUE]]
        ELSE [sent |-> Append(received, [Lines |-> lines]),
              ret |-> [n |-> Len(b), err |-> FALSE]]

\* LogsStreamWriter.Write(b): received are the messages the subscriber has,
\* sendOk is whether stream.Send succeeds this time.
streamWrite(received, b, sendOk) ==
    LET lines == nonEmptyFrom(Split(b), 1, <<>>)
    IN  IF ~sendOk
        THEN [sent |-> received, ret |-> [n |-> 0, err |-> TRUE]]
        ELSE [sent |-> Append(received, [Lines |-> lines]),
              ret |-> [n |-> Len(b), err |-> FALSE]]

MaxChunkLen == 3    \* longest chunk written
MaxWrites == 2      \* most chunks written to one stream

Chunks == SeqsUpTo({"a", NL}, MaxChunkLen)

LogsInit ==
    /\ written = <<>> /\ sent = <<>>
    /\ writeRet = [n |-> 0, err |-> FALSE]
    /\ sendFailed = FALSE
    /\ KVIdle /\ FilterIdle /\ PodsIdle /\ ImagesIdle /\ WaitIdle

Write ==
    /\ Len(written) < MaxWrites
    /\ \E b \in Chunks, sendOk \in BOOLEAN :
          LET w == streamWrite(sent, b, sendOk)
          IN  /\ written' = Append(written, b)
              /\ sent' = w.sent
              /\ writeRet' = w.ret
              /\ sendFailed' = (sendFailed \/ ~sendOk)
    /\ UNCHANGED <<kvVars, filterVars, podVars, imageVars, waitVars>>

LogsNext == Write

SpecLogs == LogsInit /\ [][LogsNext]_vars

\* The non-empty newline-separated segments of a chunk, stated by position:
\* a segment starts at a non-newline that is first or follows a newline and
\* runs to the last non-newline before the next newline.
SegmentStarts(c) ==
    {i \in 1..Len(c) : c[i] # NL /\ (i = 1 \/ c[i - 1] = NL)}

SegmentEnd(c, i) ==
    CHOOSE j \in i..Len(c) :
        /\ \A k \in i..j : c[k] # NL
        /\ (j = Len(c) \/ c[j + 1] = NL)

NonEmptySegments(c) ==
    [n \in 1..Cardinality(SegmentStarts(c)) |->
        LET i == CHOOSE s \in SegmentStarts(c) :
                     Cardinality({t \in SegmentStarts(c) : t <= s}) = n
        IN  SubSeq(c, i, SegmentEnd(c, i))]

\* C6: while every Send succeeds the subscriber has one message per Write,
\* in write order, the n-th holding exactly the non-empty newline-separated
\* segments of the n-th chunk in their order (an empty list when the chunk
\* has none): nothing is carried from one chunk to the next.
C6_OneMessagePerChunk ==
    ~sendFailed =>
        /\ Len(sent) = Len(written)
        /\ \A n \in 1..Len(written) :
              sent[n].Lines = NonEmptySegments(written[n])
        /\ (written # <<>> =>
               writeRet = [n |-> Len(written[Len(written)]), err |-> FALSE])

\* C6 witness: two chunks were written and sent: the first has no non-empty
\* segment and gave an empty message, the second ends in the middle of a
\* line and gave its two segments.
C6_Witness ==
    /\ ~sendFailed /\ Len(written) = 2
    /\ written[1] = <<NL, NL>> /\ sent[1].Lines = <<>>
    /\ written[2] = <<"a", NL, "a">>
    /\ sent[2].Lines = <<<<"a">>, <<"a">>>>

(***************************************************************************)
(* waitForMachinedRegistration, step by step                               *)
(*                                                                         *)
(* One call of the function: the connection to the system bus, then the    *)
(* loop, one GetMachine call and one sleep per action.  A GetMachine call  *)
(* answers "found" (err == nil) or fails in one of two ways; the loop does *)
(* not tell the failures apart.  A machine name is the pair of the "rkt-"  *)
(* prefix and the uuid.                                                    *)
(***************************************************************************)
LookupAnswers == {"found", "no such machine", "call failed"}

machineNameOf(uuid) == <<"rkt-", uuid>>

\* The loop condition of `for i := 0; i < 10; i++`, and the same loop run
\* once more.
loopCondOneMore(i) == i <= MaxAttempts
loopCond(i) == i < MaxAttempts

WaitInit ==
    /\ waitUUID \in UUIDs
    /\ waitPc = "connect" /\ waitI = 0 /\ waitLookups = <<>>
    /\ waitRet = "none"
    /\ KVIdle /\ FilterIdle /\ PodsIdle /\ ImagesIdle /\ LogsIdle

\* dbus.SystemBus(): an error is returned as it is; otherwise i := 0.
Connect ==
    /\ waitPc = "connect"
    /\ \E ok \in BOOLEAN :
          IF ok
          THEN waitPc' = "loop" /\ waitRet' = waitRet
          ELSE waitPc' = "done" /\ waitRet' = "dbus error"
    /\ UNCHANGED <<waitUUID, waitI, waitLookups>>
    /\ UNCHANGED <<kvVars, filterVars, podVars, imageVars, logVars>>

\* The loop body up to the sleep: GetMachine(machineName); err == nil
\* returns nil.
Lookup ==
    /\ waitPc = "loop" /\ loopCond(waitI)
    /\ \E answer \in LookupAnswers :
          /\ waitLookups' = Append(waitLookups,
                 [name |-> machineNameOf(waitUUID), answer |-> answer])
          /\ IF answer = "found"
             THEN waitPc' = "done" /\ waitRet' = "nil"
             ELSE waitPc' = "sleep" /\ waitRet' = waitRet
    /\ UNCHANGED <<waitUUID, waitI>>
    /\ UNCHANGED <<kvVars, filterVars, podVars, imageVars, logVars>>

\* time.Sleep(50ms), then i++.
Sleep ==
    /\ waitPc = "sleep"
    /\ waitPc' = "loop" /\ waitI' = waitI + 1
    /\ UNCHANGED <<waitUUID, waitLookups, waitRet>>
    /\ UNCHANGED <<kvVars, filterVars, podVars, imageVars, logVars>>

\* The loop condition fails: return errors.New("pod not found").
GiveUp ==
    /\ waitPc = "loop" /\ ~loopCond(waitI)
    /\ waitPc' = "done" /\ waitRet' = "pod not found"
    /\ UNCHANGED <<waitUUID, waitI, waitLookups>>
    /\ UNCHANGED <<kvVars, filterVars, podVars, imageVars, logVars>>

WaitNext == Connect \/ Lookup \/ Sleep \/ GiveUp

\* The function is sequential code: a step that can be taken is taken (a
\* GetMachine call answers, a sleep ends).
SpecWait == WaitInit /\ [][WaitNext]_vars /\ WF_vars(WaitNext)

WaitConnected == waitPc \in {"loop", "sleep"} \/ (waitPc = "done" /\ waitRet # "dbus error")

\* What holds of a call at every moment once it is connected: at most
\* MaxAttempts lookups, each for "rkt-" + uuid; a lookup that answers
\* "found" is the last one and the call has returned nil; a returned call
\* returned nil exactly when its last lookup answered "found", and "pod not
\* found" exactly when it made MaxAttempts lookups that all failed.
WaitSafety ==
    WaitConnected =>
        /\ Len(waitLookups) <= MaxAttempts
        /\ \A k \in 1..Len(waitLookups) :
              /\ waitLookups[k].name = machineNameOf(waitUUID)
              /\ waitLookups[k].answer = "found"
                    => (k = Len(waitLookups) /\ waitPc = "done" /\ waitRet = "nil")
        /\ waitPc = "done" =>
              /\ waitRet \in {"nil", "pod not found"}
              /\ waitRet = "nil" <=>
                    (waitLookups # <<>>
                     /\ waitLookups[Len(waitLookups)].answer = "found")
              /\ waitRet = "pod not found" <=>
                    (Len(waitLookups) = MaxAttempts
                     /\ \A k \in 1..MaxAttempts : waitLookups[k].answer # "found")
        /\ waitPc # "done" => waitRet = "none"

\* C11: once connected to the registration service the call always returns,
\* after at most MaxAttempts (10) lookups; it returns nil right after the
\* first lookup that succeeds, with no lookup after it, and it returns "pod
\* not found" exactly when all 10 lookups failed.
C11_WaitReturnsWithinTenLookups ==
    /\ [] WaitSafety
    /\ (waitPc = "loop") ~> (waitPc = "done")

\* C11 witness: a connected call that returned "pod not found" after ten
\* lookups that failed in both ways.
C11_Witness ==
    /\ waitPc = "done" /\ waitRet = "pod not found"
    /\ Len(waitLookups) = MaxAttempts
    /\ \E j, k \in 1..MaxAttempts :
          /\ waitLookups[j].answer = "no such machine"
          /\ waitLookups[k].answer = "call failed"

\* C12: in every snapshot getBasicPod returns, a non-empty Cgroup or a
\* non-empty Networks list implies State = RUNNING, whatever the pod's
\* network records and the cgroup lookup answer.
C12_CgroupAndNetworksOnlyWhenRunning ==
    podResp.op = "getBasicPod" =>
        ((podResp.pod.Cgroup # <<>> \/ podResp.pod.Networks # <<>>)
            => podResp.pod.State = "POD_STATE_RUNNING")

\* C12 witness: an Exited pod that has a network record, and whose primary
\* process and cgroup path could be looked up, was returned with Networks
\* and Cgroup empty.
C12_Witness ==
    LET h == podStore.pods[1]
    IN  /\ podResp.op = "getBasicPod" /\ h.state = "Exited"
        /\ h.nets # <<>>
        /\ ~h.containerPID1.err /\ ~h.cgroupPath.err
        /\ h.cgroupPath.path = CgA
        /\ podResp.pod.State = "POD_STATE_EXITED"
        /\ podResp.pod.Networks = <<>> /\ podResp.pod.Cgroup = <<>>

====
